---------------------------- MODULE Spec2Model ----------------------------
(***************************************************************************)
(* Withdrawal-phase simulator of the retirement planner                    *)
(* (src/src/utils/withdrawals.ts, with src/src/utils/taxes.ts,             *)
(* src/src/utils/constants.ts and src/src/types/index.ts).                 *)
(*                                                                         *)
(* Number representation.  The program computes in IEEE doubles.  Here     *)
(* every amount of money is a whole number of cents, a rate is a whole     *)
(* number of percent, and an RRIF factor and a tax rate are whole numbers  *)
(* of ten-thousandths.  A product that is not a whole number of cents is   *)
(* rounded down (MulDiv); sums, differences, min and max are exact.        *)
(***************************************************************************)
EXTENDS Integers, Sequences, FiniteSets, TLC

VARIABLES
    accounts,              \* Account[] passed by the caller
    profile,               \* Profile passed by the caller
    assumptions,           \* Assumptions passed by the caller
    accumulationResult,    \* AccumulationResult passed by the caller
    currentYear,           \* new Date().getFullYear() of this invocation
    accountStates,         \* working copy: AccountState[]
    targetSpending,
    yearlyWithdrawals,     \* YearlyWithdrawal[]
    lifetimeTaxesPaid,
    portfolioDepletionAge,
    accountDepletionAges,
    i,                     \* loop index of the year loop
    pc,                    \* position inside calculateWithdrawals
    income,                \* [primaryCppOas, spouseCppOas, totalCppOas, totalRRIF] of the year
    result,                \* WithdrawalResult under construction
    remainingNeed,         \* performTaxOptimizedWithdrawal's remainingNeed
    returned,              \* the RetirementResult, once returned
    audit,                 \* history: what each step of each year saw and took
    runs,                  \* history: the results of the earlier invocations
    call                   \* a call of one of the pure functions: [fn, args, out]

vars == <<accounts, profile, assumptions, accumulationResult, currentYear,
          accountStates, targetSpending, yearlyWithdrawals, lifetimeTaxesPaid,
          portfolioDepletionAge, accountDepletionAges, i, pc, income, result,
          remainingNeed, returned, audit, runs, call>>

-----------------------------------------------------------------------------
(* Arithmetic helpers *)

Min(a, b) == IF a <= b THEN a ELSE b
Max(a, b) == IF a >= b THEN a ELSE b
Min3(a, b, c) == Min(a, Min(b, c))

\* <<q, r>> with a * b = q * c + r and 0 <= r < c, for a, b >= 0 and c > 0,
\* computed by doubling so that no intermediate value leaves 32 bits.
RECURSIVE MulDivQR(_, _, _)
MulDivQR(a, b, c) ==
    IF b = 0 THEN <<0, 0>>
    ELSE LET h == MulDivQR(a, b \div 2, c)
             t == 2 * h[2] + (b % 2) * (a % c)
         IN  <<2 * h[1] + (b % 2) * (a \div c) + t \div c, t % c>>

\* floor(a * b / c): a double product or quotient, rounded down to a whole unit
MulDiv(a, b, c) ==
    IF a = 0 \/ b = 0 THEN 0
    ELSE IF a <= 2000000000 \div b THEN (a * b) \div c
    ELSE MulDivQR(a, b, c)[1]

\* amount * (1 + pct/100), one year's growth
Grow(amount, pct) == MulDiv(amount, 100 + pct, 100)

\* amount * Math.pow(1 + pct/100, n)
RECURSIVE GrowN(_, _, _)
GrowN(amount, pct, n) ==
    IF n <= 0 THEN amount ELSE GrowN(Grow(amount, pct), pct, n - 1)

RECURSIVE SumSeq(_)
SumSeq(s) == IF s = <<>> THEN 0 ELSE Head(s) + SumSeq(Tail(s))

\* null and a present value of an optional field
NULL == <<>>
Some(x) == <<x>>


-----------------------------------------------------------------------------
(* src/src/utils/constants.ts and src/src/types/index.ts *)

\* a dollar amount of the source, in cents
Dollars(d) == d * 100

\* max: Infinity of the last bracket; above every amount the model reaches
Infinity == 2000000000

\* rates in ten-thousandths
TAX_BRACKETS_FEDERAL ==
    << [min |-> Dollars(0),      max |-> Dollars(57375),  rate |-> 1500],
       [min |-> Dollars(57375),  max |-> Dollars(114750), rate |-> 2050],
       [min |-> Dollars(114750), max |-> Dollars(177882), rate |-> 2600],
       [min |-> Dollars(177882), max |-> Dollars(253414), rate |-> 2900],
       [min |-> Dollars(253414), max |-> Infinity,        rate |-> 3300] >>

TAX_BRACKETS_PROVINCIAL ==
    << [min |-> Dollars(0),      max |-> Dollars(52886),  rate |-> 505],
       [min |-> Dollars(52886),  max |-> Dollars(105775), rate |-> 915],
       [min |-> Dollars(105775), max |-> Dollars(150000), rate |-> 1116],
       [min |-> Dollars(150000), max |-> Dollars(220000), rate |-> 1216],
       [min |-> Dollars(220000), max |-> Infinity,        rate |-> 1316] >>

ONTARIO_SURTAX_1_THRESHOLD == Dollars(5710)
ONTARIO_SURTAX_1_RATE == 20              \* percent
ONTARIO_SURTAX_2_THRESHOLD == Dollars(7307)
ONTARIO_SURTAX_2_RATE == 36              \* percent
BASIC_PERSONAL_AMOUNT == Dollars(16129)
CAPITAL_GAINS_INCLUSION_RATE_BASE == 50  \* percent
RRIF_START_AGE == 72

\* factors in ten-thousandths
RRIF_TABLE ==
    << [age |-> 70, factor |-> 500],  [age |-> 71, factor |-> 528],
       [age |-> 72, factor |-> 540],  [age |-> 73, factor |-> 553],
       [age |-> 74, factor |-> 567],  [age |-> 75, factor |-> 582],
       [age |-> 76, factor |-> 598],  [age |-> 77, factor |-> 617],
       [age |-> 78, factor |-> 636],  [age |-> 79, factor |-> 658],
       [age |-> 80, factor |-> 682],  [age |-> 81, factor |-> 708],
       [age |-> 82, factor |-> 738],  [age |-> 83, factor |-> 771],
       [age |-> 84, factor |-> 808],  [age |-> 85, factor |-> 851],
       [age |-> 86, factor |-> 899],  [age |-> 87, factor |-> 955],
       [age |-> 88, factor |-> 1021], [age |-> 89, factor |-> 1099],
       [age |-> 90, factor |-> 1192], [age |-> 91, factor |-> 1306],
       [age |-> 92, factor |-> 1449], [age |-> 93, factor |-> 1634],
       [age |-> 94, factor |-> 1879], [age |-> 95, factor |-> 2000] >>

\* RRIF_TABLE.find(e => e.age === age): the first matching entry, or NULL
RECURSIVE FindEntry(_, _)
FindEntry(table, age) ==
    IF table = <<>> THEN NULL
    ELSE IF Head(table).age = age THEN Some(Head(table))
    ELSE FindEntry(Tail(table), age)

\* faulty variant: no clamp to the table's last factor beyond age 95
getRRIFFactorUnclamped(age) ==
    IF age < RRIF_START_AGE THEN 0
    ELSE LET entry == FindEntry(RRIF_TABLE, age)
         IN  IF entry # NULL THEN entry[1].factor ELSE 0

getRRIFFactor(age) ==
    IF age < RRIF_START_AGE THEN 0
    ELSE LET entry == FindEntry(RRIF_TABLE, age)
         IN  IF entry # NULL THEN entry[1].factor
             ELSE IF age >= 95 THEN 2000
             ELSE 0

AccountTypes == {"rrsp", "tfsa", "non_registered", "fhsa"}

getTaxTreatment(accountType) ==
    CASE accountType = "rrsp" -> "pretax"
      [] accountType \in {"tfsa", "fhsa"} -> "tax_free"
      [] accountType = "non_registered" -> "taxable"

isPreTax(type) == type = "rrsp"

-----------------------------------------------------------------------------
(* src/src/utils/taxes.ts *)

\* faulty variant: previousMax is never advanced, so every bracket's width is
\* measured from 0 and the income below a bracket is counted again in it
RECURSIVE BracketLoopFromZero(_, _, _, _, _)
BracketLoopFromZero(brackets, k, tax, remainingIncome, previousMax) ==
    IF k > Len(brackets) THEN tax
    ELSE LET bracketWidth == brackets[k].max
             incomeInBracket == Min(remainingIncome, bracketWidth)
         IN  IF incomeInBracket <= 0 THEN tax
             ELSE BracketLoopFromZero(brackets, k + 1,
                                      tax + MulDiv(incomeInBracket, brackets[k].rate, 10000),
                                      remainingIncome - incomeInBracket,
                                      previousMax)

\* the for loop of calculateBracketTax, from bracket k on
RECURSIVE BracketLoop(_, _, _, _, _)
BracketLoop(brackets, k, tax, remainingIncome, previousMax) ==
    IF k > Len(brackets) THEN tax
    ELSE LET bracketWidth == brackets[k].max - previousMax
             incomeInBracket == Min(remainingIncome, bracketWidth)
         IN  IF incomeInBracket <= 0 THEN tax
             ELSE BracketLoop(brackets, k + 1,
                              tax + MulDiv(incomeInBracket, brackets[k].rate, 10000),
                              remainingIncome - incomeInBracket,
                              brackets[k].max)

calculateBracketTax(taxableIncome, brackets) ==
    IF taxableIncome <= 0 THEN 0
    ELSE BracketLoop(brackets, 1, 0, taxableIncome, 0)

calculateRawFederalTax(taxableIncome) ==
    calculateBracketTax(taxableIncome, TAX_BRACKETS_FEDERAL)

\* faulty variant: the whole gain is included
TaxableCapitalGainsInFull(capitalGains) == capitalGains

\* capitalGains * CAPITAL_GAINS_INCLUSION_RATE_BASE
TaxableCapitalGains(capitalGains) ==
    (capitalGains * CAPITAL_GAINS_INCLUSION_RATE_BASE) \div 100

\* faulty variant: the basic personal amount credit is forgotten
calculateTotalFederalTaxNoCredit(ordinaryIncome, capitalGains) ==
    LET totalTaxableIncome == ordinaryIncome + TaxableCapitalGains(capitalGains)
    IN  IF totalTaxableIncome <= 0 THEN 0
        ELSE Max(0, calculateRawFederalTax(totalTaxableIncome))

\* faulty variant: neither the early return nor Math.max(0, tax)
calculateTotalFederalTaxUnfloored(ordinaryIncome, capitalGains) ==
    LET totalTaxableIncome == ordinaryIncome + TaxableCapitalGains(capitalGains)
        bpaCredit == MulDiv(BASIC_PERSONAL_AMOUNT, TAX_BRACKETS_FEDERAL[1].rate, 10000)
    IN  calculateRawFederalTax(totalTaxableIncome) - bpaCredit

calculateTotalFederalTax(ordinaryIncome, capitalGains) ==
    LET totalTaxableIncome == ordinaryIncome + TaxableCapitalGains(capitalGains)
        bpaCredit == MulDiv(BASIC_PERSONAL_AMOUNT, TAX_BRACKETS_FEDERAL[1].rate, 10000)
    IN  IF totalTaxableIncome <= 0 THEN 0
        ELSE Max(0, calculateRawFederalTax(totalTaxableIncome) - bpaCredit)

\* the stepped health premium of calculateProvincialTax
HealthPremium(totalTaxableIncome) ==
    IF totalTaxableIncome > Dollars(200000) THEN Dollars(900)
    ELSE IF totalTaxableIncome > Dollars(72000) THEN Dollars(750)
    ELSE IF totalTaxableIncome > Dollars(48000) THEN Dollars(600)
    ELSE IF totalTaxableIncome > Dollars(36000) THEN Dollars(450)
    ELSE IF totalTaxableIncome > Dollars(20000) THEN Dollars(300)
    ELSE 0

\* faulty variant: neither the early return nor Math.max(0, basicTax - credit)
calculateProvincialTaxUnfloored(ordinaryIncome, capitalGains, flatRate) ==
    LET totalTaxableIncome == ordinaryIncome + TaxableCapitalGains(capitalGains)
        provincialCredit == MulDiv(Dollars(11865), TAX_BRACKETS_PROVINCIAL[1].rate, 10000)
    IN  calculateBracketTax(totalTaxableIncome, TAX_BRACKETS_PROVINCIAL) - provincialCredit
        + HealthPremium(totalTaxableIncome)

\* _flatRate is accepted and ignored, as in the source
calculateProvincialTax(ordinaryIncome, capitalGains, flatRate) ==
    LET totalTaxableIncome == ordinaryIncome + TaxableCapitalGains(capitalGains)
        provincialBPA == Dollars(11865)
        provincialCredit == MulDiv(provincialBPA, TAX_BRACKETS_PROVINCIAL[1].rate, 10000)
        basicTax == Max(0, calculateBracketTax(totalTaxableIncome, TAX_BRACKETS_PROVINCIAL)
                           - provincialCredit)
        surtax1 == IF basicTax > ONTARIO_SURTAX_1_THRESHOLD
                   THEN MulDiv(basicTax - ONTARIO_SURTAX_1_THRESHOLD, ONTARIO_SURTAX_1_RATE, 100)
                   ELSE 0
        surtax2 == IF basicTax > ONTARIO_SURTAX_2_THRESHOLD
                   THEN MulDiv(basicTax - ONTARIO_SURTAX_2_THRESHOLD, ONTARIO_SURTAX_2_RATE, 100)
                   ELSE 0
    IN  IF totalTaxableIncome <= 0 THEN 0
        ELSE basicTax + (surtax1 + surtax2) + HealthPremium(totalTaxableIncome)

-----------------------------------------------------------------------------
(* src/src/utils/withdrawals.ts: performTaxOptimizedWithdrawal *)

calculateRRIFMinimum(age, rrspBalance) ==
    IF age < RRIF_START_AGE THEN 0
    ELSE MulDiv(rrspBalance, getRRIFFactor(age), 10000)

\* faulty variant: the depletion age is written without the === null test
MarkDepletedAlways(depl, acc, age) ==
    IF acc.balance <= 0 THEN [depl EXCEPT ![acc.id] = Some(age)] ELSE depl

\* if (acc.balance <= 0 && accountDepletionAges[acc.id] === null) ... = age
MarkDepleted(depl, acc, age) ==
    IF acc.balance <= 0 /\ depl[acc.id] = NULL
    THEN [depl EXCEPT ![acc.id] = Some(age)]
    ELSE depl

\* The walk of one step carries W = [accs, res, need, depl]: the account
\* states, the WithdrawalResult, remainingNeed and accountDepletionAges.

\* Step 1: withdrawal = Math.min(rrifRemaining, acc.balance)
MandatoryWithdrawal(rrifRemaining, balance) == Min(rrifRemaining, balance)

\* faulty variant: a mandatory withdrawal does not count toward the need
NeedAfterMandatoryIgnored(need, withdrawal) == need

\* Step 1: remainingNeed = Math.max(0, remainingNeed - withdrawal)
NeedAfterMandatory(need, withdrawal) == Max(0, need - withdrawal)

RECURSIVE MandatoryLoop(_, _, _, _)
MandatoryLoop(W, k, rrifRemaining, age) ==
    IF k > Len(W.accs) THEN W
    ELSE IF ~isPreTax(W.accs[k].type) THEN MandatoryLoop(W, k + 1, rrifRemaining, age)
    ELSE IF rrifRemaining <= 0 THEN W
    ELSE LET acc == W.accs[k]
             withdrawal == MandatoryWithdrawal(rrifRemaining, acc.balance)
             newAcc == [acc EXCEPT !.balance = @ - withdrawal]
         IN  MandatoryLoop(
                 [accs |-> [W.accs EXCEPT ![k] = newAcc],
                  res  |-> [W.res EXCEPT !.byAccount[acc.id] = @ + withdrawal,
                                         !.rrspWithdrawal = @ + withdrawal,
                                         !.total = @ + withdrawal],
                  need |-> NeedAfterMandatory(W.need, withdrawal),
                  depl |-> MarkDepleted(W.depl, newAcc, age)],
                 k + 1, rrifRemaining - withdrawal, age)

\* Step 2: householdBracketCap = bracket1Max * (profile.spouse ? 2 : 1)
HouseholdBracketCap(prof) ==
    TAX_BRACKETS_FEDERAL[1].max * (IF prof.spouse # NULL THEN 2 ELSE 1)

\* faulty variant: the room is measured from the bracket's min instead of its max
RoomFromBracketMin(prof, rrspWithdrawal, otherIncome) ==
    Max(0, TAX_BRACKETS_FEDERAL[1].min * (IF prof.spouse # NULL THEN 2 ELSE 1)
           - (rrspWithdrawal + otherIncome))

\* Step 2: roomInHouseholdBracket
RoomInHouseholdBracket(prof, rrspWithdrawal, otherIncome) ==
    Max(0, HouseholdBracketCap(prof) - (rrspWithdrawal + otherIncome))

\* faulty variant: the bracket-fill withdrawal ignores the bracket room
BracketFillIgnoringRoom(room, need, balance) == Min(need, balance)

\* Step 2: withdrawal = Math.min(roomInHouseholdBracket, remainingNeed, acc.balance)
BracketFillWithdrawal(room, need, balance) == Min3(room, need, balance)

RECURSIVE BracketFillLoop(_, _, _, _, _)
BracketFillLoop(W, k, otherIncome, prof, age) ==
    IF k > Len(W.accs) THEN W
    ELSE IF ~isPreTax(W.accs[k].type) THEN BracketFillLoop(W, k + 1, otherIncome, prof, age)
    ELSE IF W.need <= 0 THEN W
    ELSE LET acc == W.accs[k]
             room == RoomInHouseholdBracket(prof, W.res.rrspWithdrawal, otherIncome)
             withdrawal == BracketFillWithdrawal(room, W.need, acc.balance)
             newAcc == [acc EXCEPT !.balance = @ - withdrawal]
         IN  IF withdrawal > 0
             THEN BracketFillLoop(
                      [accs |-> [W.accs EXCEPT ![k] = newAcc],
                       res  |-> [W.res EXCEPT !.byAccount[acc.id] = @ + withdrawal,
                                              !.rrspWithdrawal = @ + withdrawal,
                                              !.total = @ + withdrawal],
                       need |-> W.need - withdrawal,
                       depl |-> MarkDepleted(W.depl, newAcc, age)],
                      k + 1, otherIncome, prof, age)
             ELSE BracketFillLoop(W, k + 1, otherIncome, prof, age)

\* faulty variant: the withdrawal is not capped at the account's balance
NeedWithdrawalUncapped(need, balance) == need

\* Steps 3, 4 and 5: withdrawal = Math.min(remainingNeed, acc.balance)
NeedWithdrawal(need, balance) == Min(need, balance)

RECURSIVE TaxFreeLoop(_, _, _)
TaxFreeLoop(W, k, age) ==
    IF k > Len(W.accs) THEN W
    ELSE IF getTaxTreatment(W.accs[k].type) # "tax_free" THEN TaxFreeLoop(W, k + 1, age)
    ELSE IF W.need <= 0 THEN W
    ELSE LET acc == W.accs[k]
             withdrawal == NeedWithdrawal(W.need, acc.balance)
             newAcc == [acc EXCEPT !.balance = @ - withdrawal]
         IN  TaxFreeLoop(
                 [accs |-> [W.accs EXCEPT ![k] = newAcc],
                  res  |-> [W.res EXCEPT !.byAccount[acc.id] = @ + withdrawal,
                                         !.taxFreeWithdrawal = @ + withdrawal,
                                         !.total = @ + withdrawal],
                  need |-> W.need - withdrawal,
                  depl |-> MarkDepleted(W.depl, newAcc, age)],
                 k + 1, age)

\* faulty variant: half of every taxable withdrawal is taken to be gain
GainsHalf(withdrawal, costBasis, balance) == MulDiv(withdrawal, 50, 100)

\* Step 4: how gainRatio = costBasis > 0 ? Math.max(0, 1 - costBasis / balance) : 0.5
\* is resolved.  The test is on the cost basis alone: with a positive cost
\* basis the division is carried out whatever the balance.
GainRatioCase(costBasis, balance) ==
    IF costBasis > 0
    THEN IF balance = 0 THEN "division by zero" ELSE "quotient"
    ELSE "fallback"

\* Step 4: gains = withdrawal * gainRatio.
\* The division by a zero balance is the double division: costBasis / 0 is
\* +Infinity for costBasis > 0, so the ratio is Math.max(0, -Infinity) = 0.
Gains(withdrawal, costBasis, balance) ==
    CASE GainRatioCase(costBasis, balance) = "fallback" -> MulDiv(withdrawal, 50, 100)
      [] GainRatioCase(costBasis, balance) = "division by zero" -> 0
      [] GainRatioCase(costBasis, balance) = "quotient" ->
             MulDiv(withdrawal, Max(0, balance - costBasis), balance)

\* faulty variant: the cost basis is left as it was
CostBasisKept(costBasis, newBalance, withdrawal) == costBasis

\* Step 4: the cost basis after the withdrawal; newBalance = balance - withdrawal
CostBasisAfter(costBasis, newBalance, withdrawal) ==
    IF newBalance > 0
    THEN MulDiv(costBasis, newBalance, newBalance + withdrawal)
    ELSE 0

RECURSIVE TaxableLoop(_, _, _)
TaxableLoop(W, k, age) ==
    IF k > Len(W.accs) THEN W
    ELSE IF getTaxTreatment(W.accs[k].type) # "taxable" THEN TaxableLoop(W, k + 1, age)
    ELSE IF W.need <= 0 THEN W
    ELSE LET acc == W.accs[k]
             withdrawal == NeedWithdrawal(W.need, acc.balance)
             gains == Gains(withdrawal, acc.costBasis, acc.balance)
             newBalance == acc.balance - withdrawal
             newAcc == [acc EXCEPT !.balance = newBalance,
                                   !.costBasis = CostBasisAfter(@, newBalance, withdrawal)]
         IN  TaxableLoop(
                 [accs |-> [W.accs EXCEPT ![k] = newAcc],
                  res  |-> [W.res EXCEPT !.byAccount[acc.id] = @ + withdrawal,
                                         !.taxableWithdrawal = @ + withdrawal,
                                         !.taxableGains = @ + gains,
                                         !.total = @ + withdrawal],
                  need |-> W.need - withdrawal,
                  depl |-> MarkDepleted(W.depl, newAcc, age)],
                 k + 1, age)

\* faulty variant: the overflow step forgets result.total += withdrawal
OverflowResultNoTotal(res, id, withdrawal) ==
    [res EXCEPT !.byAccount[id] = @ + withdrawal,
                !.rrspWithdrawal = @ + withdrawal]

\* Step 5: what an overflow withdrawal adds to the WithdrawalResult
OverflowResult(res, id, withdrawal) ==
    [res EXCEPT !.byAccount[id] = @ + withdrawal,
                !.rrspWithdrawal = @ + withdrawal,
                !.total = @ + withdrawal]

RECURSIVE OverflowLoop(_, _, _)
OverflowLoop(W, k, age) ==
    IF k > Len(W.accs) THEN W
    ELSE IF ~isPreTax(W.accs[k].type) THEN OverflowLoop(W, k + 1, age)
    ELSE IF W.need <= 0 THEN W
    ELSE LET acc == W.accs[k]
             withdrawal == NeedWithdrawal(W.need, acc.balance)
             newAcc == [acc EXCEPT !.balance = @ - withdrawal]
         IN  OverflowLoop(
                 [accs |-> [W.accs EXCEPT ![k] = newAcc],
                  res  |-> OverflowResult(W.res, acc.id, withdrawal),
                  need |-> W.need - withdrawal,
                  depl |-> MarkDepleted(W.depl, newAcc, age)],
                 k + 1, age)

-----------------------------------------------------------------------------
(* Inputs of one invocation of calculateWithdrawals *)

\* longest horizon lifeExpectancy - retirementAge of a run
MaxHorizon == 2
\* most accounts in the caller's list
MaxAccounts == 3

\* what one account of the caller's list can be: type, owner and the final
\* balance the accumulation projector reports for it
AccountChoices ==
    { [type |-> "rrsp",           owner |-> "primary", balance |-> Dollars(500000)],
      [type |-> "rrsp",           owner |-> "spouse",  balance |-> Dollars(100000)],
      [type |-> "tfsa",           owner |-> "primary", balance |-> Dollars(100000)],
      [type |-> "fhsa",           owner |-> "spouse",  balance |-> Dollars(0)],
      [type |-> "non_registered", owner |-> "primary", balance |-> Dollars(30000)] }

\* the caller's lists: up to MaxAccounts accounts, no choice taken twice
AccountLists ==
    { list \in UNION { [1..n -> AccountChoices] : n \in 0..MaxAccounts } :
        \A a, b \in DOMAIN list : a # b => list[a] # list[b] }

\* the optional spouse profile
SpouseChoices ==
    { NULL,
      Some([currentAge |-> 68, cppOasBenefit |-> Dollars(12000),
            cppOasStartAge |-> 71, provinceTaxRate |-> 10]) }

ProfileChoices ==
    { [currentAge |-> ra - 2, retirementAge |-> ra, lifeExpectancy |-> ra + h,
       provinceTaxRate |-> IF ra = 65 THEN 0 ELSE 10,
       cppOasBenefit |-> b, cppOasStartAge |-> ra + 1, spouse |-> sp] :
      ra \in {65, 71}, h \in -1..MaxHorizon, b \in {Dollars(0), Dollars(25000)},
      sp \in SpouseChoices }

\* rates in percent
AssumptionChoices ==
    { [inflationRate |-> f[1], safeWithdrawalRate |-> w, retirementReturnRate |-> f[2]] :
      w \in {4, 20, 50}, f \in {<<0, 0>>, <<3, 5>>} }
    \cup { [inflationRate |-> 0, safeWithdrawalRate |-> 20, retirementReturnRate |-> r] :
           r \in {-100, -50} }
    \cup { [inflationRate |-> 0, safeWithdrawalRate |-> 0, retirementReturnRate |-> 0] }

CurrentYears == {2026}

\* accumulationResult.totalAtRetirementReal: total / (1 + inflation)^years
RECURSIVE Discount(_, _, _)
Discount(amount, pct, n) ==
    IF n <= 0 THEN amount ELSE Discount(MulDiv(amount, 100, 100 + pct), pct, n - 1)

\* the AccumulationResult of a projection without contributions or growth
Accumulation(list, prof, assum) ==
    LET total == SumSeq([k \in 1..Len(list) |-> list[k].balance])
    IN  [finalBalances |-> [k \in 1..Len(list) |-> list[k].balance],
         totalAtRetirement |-> total,
         totalAtRetirementReal |->
             Discount(total, assum.inflationRate, prof.retirementAge - prof.currentAge)]

-----------------------------------------------------------------------------
(* src/src/utils/withdrawals.ts: calculateWithdrawals *)

\* faulty variant: the horizon is one year short
retirementYearsShort == profile.lifeExpectancy - profile.retirementAge - 1

\* faulty variant: the horizon is clamped at 0, as the results table does
retirementYearsClamped == Max(0, profile.lifeExpectancy - profile.retirementAge)

retirementYears == profile.lifeExpectancy - profile.retirementAge
retirementStartYear == currentYear + (profile.retirementAge - profile.currentAge)

\* faulty variant: no account starts with a cost basis
InitialAccountStatesNoBasis(accts, accum) ==
    [k \in 1..Len(accts) |->
        [id |-> accts[k].id, type |-> accts[k].type, owner |-> accts[k].owner,
         balance |-> accum.finalBalances[accts[k].id],
         costBasis |-> 0]]

\* accountStates = accounts.map(...)
InitialAccountStates(accts, accum) ==
    [k \in 1..Len(accts) |->
        [id |-> accts[k].id, type |-> accts[k].type, owner |-> accts[k].owner,
         balance |-> accum.finalBalances[accts[k].id],
         costBasis |-> IF getTaxTreatment(accts[k].type) = "taxable"
                       THEN MulDiv(accum.finalBalances[accts[k].id], 50, 100)
                       ELSE 0]]

AccountIds == {accounts[k].id : k \in 1..Len(accounts)}

TotalBalance(accs) == SumSeq([k \in 1..Len(accs) |-> accs[k].balance])

\* accountStates.filter(a => a.owner === owner && isPreTax(a.type)).reduce(... + a.balance)
PreTaxBalance(accs, owner) ==
    SumSeq([k \in 1..Len(accs) |->
        IF accs[k].owner = owner /\ isPreTax(accs[k].type) THEN accs[k].balance ELSE 0])

\* accountStates.filter(a => a.owner === owner && <treatment>).reduce(... + byAccount[a.id])
WithdrawnBy(accs, byAccount, owner, treatment) ==
    SumSeq([k \in 1..Len(accs) |->
        IF accs[k].owner = owner /\ getTaxTreatment(accs[k].type) = treatment
        THEN byAccount[accs[k].id] ELSE 0])

EmptyResult ==
    [total |-> 0, rrspWithdrawal |-> 0, taxFreeWithdrawal |-> 0,
     taxableWithdrawal |-> 0, taxableGains |-> 0,
     byAccount |-> [id \in AccountIds |-> 0]]

NoIncome == [primaryCppOas |-> 0, spouseCppOas |-> 0, totalCppOas |-> 0, totalRRIF |-> 0]

Init ==
    /\ \E list \in AccountLists, prof \in ProfileChoices, assum \in AssumptionChoices :
          /\ accounts = [k \in 1..Len(list) |->
                            [id |-> k, type |-> list[k].type, owner |-> list[k].owner,
                             balance |-> list[k].balance]]
          /\ profile = prof
          /\ assumptions = assum
          /\ accumulationResult = Accumulation(list, prof, assum)
    /\ currentYear \in CurrentYears
    /\ accountStates = InitialAccountStates(accounts, accumulationResult)
    /\ targetSpending =
          MulDiv(accumulationResult.totalAtRetirement, assumptions.safeWithdrawalRate, 100)
    /\ yearlyWithdrawals = <<>>
    /\ lifetimeTaxesPaid = 0
    /\ portfolioDepletionAge = NULL
    /\ accountDepletionAges = [id \in AccountIds |-> NULL]
    /\ i = 0
    /\ pc = "loop"
    /\ income = NoIncome
    /\ result = EmptyResult
    /\ remainingNeed = 0
    /\ returned = NULL
    /\ audit = <<>>
    /\ runs = <<>>
    /\ call = NULL

inputs == <<accounts, profile, assumptions, accumulationResult, currentYear>>
otherInputs == <<profile, assumptions, accumulationResult, currentYear>>

\* faulty variant: the working copy is the caller's list itself (no map to
\* fresh objects), so every write to acc.balance lands in the caller's account
CallerAccountsAliased(accts, states) ==
    [k \in 1..Len(accts) |-> [accts[k] EXCEPT !.balance = states[k].balance]]

\* What the caller's accounts hold once the working copy holds `states`:
\* accounts.map(account => ({...})) builds new objects, so the writes to
\* acc.balance and acc.costBasis reach no object of the caller.
CallerAccounts(accts, states) == accts

Age == profile.retirementAge + i
Year == retirementStartYear + i

\* the benefit of one person in the year, in that year's dollars
CppOas(benefit, startAge, personAge, yearsFromNow) ==
    IF benefit # 0 /\ startAge # 0 /\ personAge >= startAge
    THEN GrowN(benefit, assumptions.inflationRate, yearsFromNow)
    ELSE 0

\* faulty variant: the spouse ages from retirement on only, the years between
\* now and retirement are forgotten
SpouseAgeSinceRetirement(spouse, elapsed) == spouse.currentAge + i

\* profile.spouse.currentAge + (year - currentYear)
SpouseAge(spouse, elapsed) == spouse.currentAge + elapsed

\* faulty variant: the portfolio depletion age is written without the === null test
PortfolioDepletionOverwritten(pda, totalRemaining, age) ==
    IF totalRemaining <= 0 THEN Some(age) ELSE pda

\* if (totalRemaining <= 0 && portfolioDepletionAge === null) portfolioDepletionAge = age
PortfolioDepletion(pda, totalRemaining, age) ==
    IF totalRemaining <= 0 /\ pda = NULL THEN Some(age) ELSE pda

\* The head of one iteration: the depletion check, the year's fixed income and
\* RRIF minimum, and the entry of performTaxOptimizedWithdrawal.
BeginYear ==
    /\ pc = "loop"
    /\ i <= retirementYears
    /\ LET primaryCppOas == CppOas(profile.cppOasBenefit, profile.cppOasStartAge,
                                   Age, Age - profile.currentAge)
           spouseCppOas ==
               IF profile.spouse # NULL
               THEN CppOas(profile.spouse[1].cppOasBenefit, profile.spouse[1].cppOasStartAge,
                           SpouseAge(profile.spouse[1], Year - currentYear),
                           Year - currentYear)
               ELSE 0
           spouseAge == IF profile.spouse # NULL
                        THEN SpouseAge(profile.spouse[1], Year - currentYear)
                        ELSE Age
           primaryRRIF == calculateRRIFMinimum(Age, PreTaxBalance(accountStates, "primary"))
           spouseRRIF == calculateRRIFMinimum(spouseAge, PreTaxBalance(accountStates, "spouse"))
           totalCppOas == primaryCppOas + spouseCppOas
       IN  /\ portfolioDepletionAge' =
                  PortfolioDepletion(portfolioDepletionAge, TotalBalance(accountStates), Age)
           /\ income' = [primaryCppOas |-> primaryCppOas, spouseCppOas |-> spouseCppOas,
                         totalCppOas |-> totalCppOas, totalRRIF |-> primaryRRIF + spouseRRIF]
           /\ result' = EmptyResult
           /\ remainingNeed' = Max(0, targetSpending - totalCppOas)
           /\ audit' = Append(audit,
                  [age |-> Age,
                   startTotal |-> TotalBalance(accountStates),
                   startBalances |-> [id \in AccountIds |->
                       accountStates[CHOOSE k \in 1..Len(accountStates) :
                                         accountStates[k].id = id].balance],
                   need |-> Max(0, targetSpending - totalCppOas),
                   fixedIncome |-> totalCppOas,
                   spouseCppOas |-> spouseCppOas,
                   primaryRRIF |-> primaryRRIF,
                   spouseRRIF |-> spouseRRIF,
                   spousePreTax |-> PreTaxBalance(accountStates, "spouse"),
                   steps |-> <<>>])
    /\ pc' = "mandatory"
    /\ UNCHANGED <<inputs, accountStates, targetSpending, yearlyWithdrawals,
                   lifetimeTaxesPaid, accountDepletionAges, i, returned, runs, call>>

\* the walk state a step starts from
Walk == [accs |-> accountStates, res |-> result, need |-> remainingNeed,
         depl |-> accountDepletionAges]

\* history only: what the step took from each account and what it left
Audited(step, W) ==
    [audit EXCEPT ![Len(audit)].steps = Append(@,
        [step |-> step,
         taken |-> [id \in AccountIds |-> W.res.byAccount[id] - result.byAccount[id]],
         needAfter |-> W.need,
         before |-> [k \in 1..Len(accountStates) |-> accountStates[k].balance],
         costBases |-> [k \in 1..Len(accountStates) |-> accountStates[k].costBasis],
         gains |-> W.res.taxableGains - result.taxableGains,
         gainRatios |-> [k \in 1..Len(accountStates) |->
             GainRatioCase(accountStates[k].costBasis, accountStates[k].balance)],
         balances |-> [k \in 1..Len(W.accs) |-> W.accs[k].balance]])]

\* a step of performTaxOptimizedWithdrawal: the walk W it computes becomes the state
Step(from, to, W) ==
    /\ pc = from
    /\ accountStates' = W.accs
    /\ result' = W.res
    /\ remainingNeed' = W.need
    /\ accountDepletionAges' = W.depl
    /\ audit' = Audited(from, W)
    /\ pc' = to
    /\ accounts' = CallerAccounts(accounts, W.accs)
    /\ UNCHANGED <<otherInputs, targetSpending, yearlyWithdrawals, lifetimeTaxesPaid,
                   portfolioDepletionAge, i, income, returned, runs, call>>

\* faulty variant: the mandatory step is skipped when no spending need remains
MandatoryStepIfNeeded ==
    Step("mandatory", "bracketFill",
         IF remainingNeed > 0 THEN MandatoryLoop(Walk, 1, income.totalRRIF, Age) ELSE Walk)

\* Step 1: Take RRIF Minimums (Mandatory)
MandatoryStep ==
    Step("mandatory", "bracketFill", MandatoryLoop(Walk, 1, income.totalRRIF, Age))

\* Step 2: Fill up to top of 1st Federal Bracket
BracketFillStep ==
    Step("bracketFill", "taxFree", BracketFillLoop(Walk, 1, income.totalCppOas, profile, Age))

\* faulty variant: the tax-free step is left out
TaxFreeStepSkipped == Step("taxFree", "taxable", Walk)

\* Step 3: Use Tax-Free accounts
TaxFreeStep ==
    Step("taxFree", "taxable", TaxFreeLoop(Walk, 1, Age))

\* Step 4: Use Non-Registered (Taxable)
TaxableStep ==
    Step("taxable", "overflow", TaxableLoop(Walk, 1, Age))

\* faulty variant: the overflow step is left out
OverflowStepSkipped == Step("overflow", "settle", Walk)

\* Step 5: Additional RRSP if needed
OverflowStep ==
    Step("overflow", "settle",
         IF remainingNeed > 0 THEN OverflowLoop(Walk, 1, Age) ELSE Walk)

\* faulty variant: the return is not applied
ApplyReturnSkipped(balance, rate) == balance

\* acc.balance *= (1 + assumptions.retirementReturnRate)
ApplyReturn(balance, rate) == Grow(balance, rate)

\* primaryGains: the primary's share of the household's realized gains
PrimaryGains(taxableGains, primaryTaxableWithdrawal, totalTaxableWithdrawal) ==
    IF totalTaxableWithdrawal > 0
    THEN MulDiv(taxableGains, primaryTaxableWithdrawal, totalTaxableWithdrawal)
    ELSE 0

\* faulty variant: the spouse's taxes are left out of the year's total
TotalTaxPrimaryOnly(primaryFederalTax, primaryProvincialTax, spouseFederalTax, spouseProvincialTax) ==
    primaryFederalTax + primaryProvincialTax

\* totalTax = primaryFederalTax + primaryProvincialTax + spouseFederalTax + spouseProvincialTax
TotalTax(primaryFederalTax, primaryProvincialTax, spouseFederalTax, spouseProvincialTax) ==
    primaryFederalTax + primaryProvincialTax + spouseFederalTax + spouseProvincialTax

\* the YearlyWithdrawal of the year, from the account states after the return
YearRecord(accs) ==
    LET primaryGains == PrimaryGains(result.taxableGains,
                            WithdrawnBy(accs, result.byAccount, "primary", "taxable"),
                            result.taxableWithdrawal)
        spouseGains == result.taxableGains - primaryGains
        primaryOrdinaryIncome ==
            WithdrawnBy(accs, result.byAccount, "primary", "pretax") + income.primaryCppOas
        spouseOrdinaryIncome ==
            WithdrawnBy(accs, result.byAccount, "spouse", "pretax") + income.spouseCppOas
        primaryFederalTax == calculateTotalFederalTax(primaryOrdinaryIncome, primaryGains)
        primaryProvincialTax ==
            calculateProvincialTax(primaryOrdinaryIncome, primaryGains, profile.provinceTaxRate)
        spouseFederalTax == calculateTotalFederalTax(spouseOrdinaryIncome, spouseGains)
        spouseProvincialTax ==
            calculateProvincialTax(spouseOrdinaryIncome, spouseGains,
                IF profile.spouse # NULL THEN profile.spouse[1].provinceTaxRate
                ELSE profile.provinceTaxRate)
        totalTax == TotalTax(primaryFederalTax, primaryProvincialTax,
                             spouseFederalTax, spouseProvincialTax)
        grossWithdrawal == result.total
        grossIncome == grossWithdrawal + income.totalCppOas
    IN  [age |-> Age,
         year |-> Year,
         withdrawals |-> result.byAccount,
         remainingBalances |-> [k \in 1..Len(accs) |-> accs[k].balance],
         totalWithdrawal |-> grossWithdrawal,
         cppOasIncome |-> income.totalCppOas,
         grossIncome |-> grossIncome,
         federalTax |-> primaryFederalTax + spouseFederalTax,
         provincialTax |-> primaryProvincialTax + spouseProvincialTax,
         totalTax |-> totalTax,
         afterTaxIncome |-> grossIncome - totalTax,
         targetSpending |-> targetSpending,
         rmdAmount |-> income.totalRRIF,
         totalRemainingBalance |-> TotalBalance(accs)]

\* The rest of the iteration: the return on what is left, the taxes, the
\* year's record, and next year's target spending.
EndYear ==
    /\ pc = "settle"
    /\ LET grown == [k \in 1..Len(accountStates) |->
                        [accountStates[k] EXCEPT
                            !.balance = ApplyReturn(@, assumptions.retirementReturnRate)]]
           rec == YearRecord(grown)
       IN  /\ accountStates' = grown
           /\ accounts' = CallerAccounts(accounts, grown)
           /\ yearlyWithdrawals' = Append(yearlyWithdrawals, rec)
           /\ lifetimeTaxesPaid' = lifetimeTaxesPaid + rec.totalTax
    /\ targetSpending' = Grow(targetSpending, assumptions.inflationRate)
    /\ i' = i + 1
    /\ pc' = "loop"
    /\ UNCHANGED <<otherInputs, portfolioDepletionAge, accountDepletionAges, income,
                   result, remainingNeed, returned, audit, runs, call>>

\* the loop is over: the RetirementResult
ReturnIf(loopIsOver) ==
    /\ pc = "loop"
    /\ loopIsOver
    /\ LET sustainableAnnualWithdrawal ==
               MulDiv(accumulationResult.totalAtRetirementReal,
                      assumptions.safeWithdrawalRate, 100)
           sustainableAnnualWithdrawalNominal ==
               MulDiv(accumulationResult.totalAtRetirement,
                      assumptions.safeWithdrawalRate, 100)
       IN  returned' = Some(
               [yearlyWithdrawals |-> yearlyWithdrawals,
                portfolioDepletionAge |-> portfolioDepletionAge,
                lifetimeTaxesPaid |-> lifetimeTaxesPaid,
                sustainableMonthlyWithdrawal |-> sustainableAnnualWithdrawal \div 12,
                sustainableAnnualWithdrawal |-> sustainableAnnualWithdrawal,
                sustainableMonthlyWithdrawalNominal |-> sustainableAnnualWithdrawalNominal \div 12,
                sustainableAnnualWithdrawalNominal |-> sustainableAnnualWithdrawalNominal,
                accountDepletionAges |-> accountDepletionAges])
    /\ pc' = "done"
    /\ UNCHANGED <<inputs, accountStates, targetSpending, yearlyWithdrawals,
                   lifetimeTaxesPaid, portfolioDepletionAge, accountDepletionAges, i,
                   income, result, remainingNeed, audit, runs, call>>

\* faulty variant: the loop may also end as soon as the portfolio is found depleted
ReturnWhenDepleted == ReturnIf(~(i <= retirementYears) \/ portfolioDepletionAge # NULL)

\* for (let i = 0; i <= retirementYears; i++): the loop ends when the test fails
Return == ReturnIf(~(i <= retirementYears))

Next ==
    \/ BeginYear
    \/ MandatoryStep
    \/ BracketFillStep
    \/ TaxFreeStep
    \/ TaxableStep
    \/ OverflowStep
    \/ EndYear
    \/ Return

Spec == Init /\ [][Next]_vars

\* most further invocations on the same input objects
MaxReruns == 1

\* calculateWithdrawals is called again on the same input objects, in the same
\* calendar year or in the next one: new Date().getFullYear() is read again,
\* and the locals are built anew from what the inputs hold now
Rerun ==
    /\ pc = "done"
    /\ Len(runs) < MaxReruns
    /\ runs' = Append(runs, [at |-> currentYear, result |-> returned[1]])
    /\ currentYear' \in {currentYear, currentYear + 1}
    /\ accountStates' = InitialAccountStates(accounts, accumulationResult)
    /\ targetSpending' =
          MulDiv(accumulationResult.totalAtRetirement, assumptions.safeWithdrawalRate, 100)
    /\ yearlyWithdrawals' = <<>>
    /\ lifetimeTaxesPaid' = 0
    /\ portfolioDepletionAge' = NULL
    /\ accountDepletionAges' = [id \in AccountIds |-> NULL]
    /\ i' = 0
    /\ pc' = "loop"
    /\ income' = NoIncome
    /\ result' = EmptyResult
    /\ remainingNeed' = 0
    /\ returned' = NULL
    /\ audit' = <<>>
    /\ UNCHANGED <<accounts, profile, assumptions, accumulationResult, call>>

NextRerun ==
    \/ Next
    \/ Rerun

SpecRerun == Init /\ [][NextRerun]_vars

-----------------------------------------------------------------------------
(* Calls of the pure functions: calculateRRIFMinimum, calculateTotalFederalTax *)
(* and calculateProvincialTax, each on arguments drawn from a bounded set      *)

\* oldest age a minimum is asked for
MaxAge == 100
\* incomes go up to MaxIncomeSteps steps of 2,500 dollars
MaxIncomeSteps == 120

AgeChoices == 60..MaxAge

BalanceChoices ==
    {Dollars(0), 12345, Dollars(1000), Dollars(100000), Dollars(500000)}

\* ordinary incomes: a grid from -5,000 dollars up, and the cents around the
\* basic personal amount and the first federal bracket's upper bound
IncomeChoices ==
    {k * Dollars(2500) : k \in -2..MaxIncomeSteps}
    \cup {BASIC_PERSONAL_AMOUNT - 1, BASIC_PERSONAL_AMOUNT, BASIC_PERSONAL_AMOUNT + 1,
          TAX_BRACKETS_FEDERAL[1].max - 1, TAX_BRACKETS_FEDERAL[1].max,
          TAX_BRACKETS_FEDERAL[1].max + 1}

GainChoices ==
    {Dollars(-100000), Dollars(-20000), Dollars(0), Dollars(20000), Dollars(100000)}

\* the flat rate argument, in percent
FlatRateChoices == {0, 10}

\* the tables calculateBracketTax is called with
BracketTables == <<TAX_BRACKETS_FEDERAL, TAX_BRACKETS_PROVINCIAL>>

Calls ==
    {[fn |-> "calculateRRIFMinimum", args |-> <<age, balance>>, out |-> NULL] :
        age \in AgeChoices, balance \in BalanceChoices}
    \cup {[fn |-> "calculateTotalFederalTax", args |-> <<o, g>>, out |-> NULL] :
        o \in IncomeChoices, g \in GainChoices}
    \cup {[fn |-> "calculateProvincialTax", args |-> <<o, g, r>>, out |-> NULL] :
        o \in IncomeChoices, g \in GainChoices, r \in FlatRateChoices}
    \cup {[fn |-> "calculateBracketTax", args |-> <<o, t>>, out |-> NULL] :
        o \in IncomeChoices, t \in 1..Len(BracketTables)}

\* everything but call: the state of a simulation
simulation == <<accounts, profile, assumptions, accumulationResult, currentYear,
                accountStates, targetSpending, yearlyWithdrawals, lifetimeTaxesPaid,
                portfolioDepletionAge, accountDepletionAges, i, pc, income, result,
                remainingNeed, returned, audit, runs>>

\* no simulation is under way
InitCalc ==
    /\ accounts = <<>>
    /\ profile = [currentAge |-> 63, retirementAge |-> 65, lifeExpectancy |-> 65,
                  provinceTaxRate |-> 10, cppOasBenefit |-> 0, cppOasStartAge |-> 66,
                  spouse |-> NULL]
    /\ assumptions = [inflationRate |-> 0, safeWithdrawalRate |-> 4,
                      retirementReturnRate |-> 0]
    /\ accumulationResult = Accumulation(<<>>, profile, assumptions)
    /\ currentYear \in CurrentYears
    /\ accountStates = <<>>
    /\ targetSpending = 0
    /\ yearlyWithdrawals = <<>>
    /\ lifetimeTaxesPaid = 0
    /\ portfolioDepletionAge = NULL
    /\ accountDepletionAges = <<>>
    /\ i = 0
    /\ pc = "idle"
    /\ income = NoIncome
    /\ result = EmptyResult
    /\ remainingNeed = 0
    /\ returned = NULL
    /\ audit = <<>>
    /\ runs = <<>>
    /\ call \in Calls

ApplyRRIFMinimum ==
    /\ call.fn = "calculateRRIFMinimum"
    /\ call.out = NULL
    /\ call' = [call EXCEPT !.out = Some(calculateRRIFMinimum(call.args[1], call.args[2]))]
    /\ UNCHANGED simulation

ApplyFederalTax ==
    /\ call.fn = "calculateTotalFederalTax"
    /\ call.out = NULL
    /\ call' = [call EXCEPT !.out =
                    Some(calculateTotalFederalTax(call.args[1], call.args[2]))]
    /\ UNCHANGED simulation

ApplyProvincialTax ==
    /\ call.fn = "calculateProvincialTax"
    /\ call.out = NULL
    /\ call' = [call EXCEPT !.out =
                    Some(calculateProvincialTax(call.args[1], call.args[2], call.args[3]))]
    /\ UNCHANGED simulation

ApplyBracketTax ==
    /\ call.fn = "calculateBracketTax"
    /\ call.out = NULL
    /\ call' = [call EXCEPT !.out =
                    Some(calculateBracketTax(call.args[1], BracketTables[call.args[2]]))]
    /\ UNCHANGED simulation

NextCalc ==
    \/ ApplyRRIFMinimum
    \/ ApplyFederalTax
    \/ ApplyProvincialTax
    \/ ApplyBracketTax

SpecCalc == InitCalc /\ [][NextCalc]_vars

-----------------------------------------------------------------------------
(* Properties *)

RECURSIVE SumOver(_, _)
SumOver(f, S) ==
    IF S = {} THEN 0
    ELSE LET x == CHOOSE y \in S : TRUE IN f[x] + SumOver(f, S \ {x})

\* the simulated years whose record has been appended
Recorded == 1..Len(yearlyWithdrawals)

\* the ids of the accounts of a tax treatment
IdsOf(treatment) ==
    {accounts[k].id : k \in {j \in 1..Len(accounts) :
                                getTaxTreatment(accounts[j].type) = treatment}}

\* what step number s of recorded year y took from the accounts of a treatment
TakenIn(y, s, treatment) == SumOver(audit[y].steps[s].taken, IdsOf(treatment))

\* the balance of account id after the withdrawals of year y, before the return
BalanceAfterWithdrawals(y, id) == audit[y].steps[5].balances[id]

\* C1: in every yearly record the per-account withdrawals add up to
\* totalWithdrawal, and totalWithdrawal + cppOasIncome is grossIncome.
C1_TotalConservation ==
    \A y \in Recorded :
        LET rec == yearlyWithdrawals[y]
        IN  /\ SumOver(rec.withdrawals, AccountIds) = rec.totalWithdrawal
            /\ rec.totalWithdrawal + rec.cppOasIncome = rec.grossIncome

\* a record with fixed income and withdrawals from three accounts, one of
\* them reached by the overflow step
C1_Witness ==
    \E y \in Recorded :
        LET rec == yearlyWithdrawals[y]
        IN  /\ rec.cppOasIncome > 0
            /\ Cardinality({id \in AccountIds : rec.withdrawals[id] > 0}) >= 3
            /\ TakenIn(y, 5, "pretax") > 0

\* C2: no account balance is ever negative, in particular not after a
\* simulated year, and what the steps of a year take from an account is
\* never more than the account held when the year began.
C2_BalancesNonNegative ==
    /\ \A k \in 1..Len(accountStates) : accountStates[k].balance >= 0
    /\ \A y \in Recorded : \A id \in AccountIds :
           /\ yearlyWithdrawals[y].remainingBalances[id] >= 0
           /\ yearlyWithdrawals[y].withdrawals[id] <= audit[y].startBalances[id]
    /\ audit # <<>> =>
           \A id \in AccountIds : result.byAccount[id] <= audit[Len(audit)].startBalances[id]

\* a year in which one account is emptied by the mandatory, the bracket-fill
\* and the overflow step together
C2_Witness ==
    \E y \in Recorded : \E id \in AccountIds :
        /\ audit[y].steps[1].taken[id] > 0
        /\ audit[y].steps[2].taken[id] > 0
        /\ audit[y].steps[5].taken[id] > 0
        /\ yearlyWithdrawals[y].withdrawals[id] = audit[y].startBalances[id]

\* C3: in every simulated year the tax-deferred withdrawals are at least the
\* year's mandatory minimum rmdAmount.
C3_MandatoryMinimumTaken ==
    \A y \in Recorded :
        SumOver(yearlyWithdrawals[y].withdrawals, IdsOf("pretax"))
            >= yearlyWithdrawals[y].rmdAmount

\* a year whose fixed income covers target spending (remaining need 0) and
\* whose mandatory minimum is positive
C3_Witness ==
    \E y \in Recorded :
        /\ audit[y].need = 0
        /\ yearlyWithdrawals[y].targetSpending > 0
        /\ yearlyWithdrawals[y].rmdAmount > 0
        /\ yearlyWithdrawals[y].totalWithdrawal = yearlyWithdrawals[y].rmdAmount

\* the figures of recorded year y the ordering claims speak of
StartBalanceOf(y, treatment) == SumOver(audit[y].startBalances, IdsOf(treatment))
WithdrawnFrom(y, treatment) == SumOver(yearlyWithdrawals[y].withdrawals, IdsOf(treatment))
FixedIncome(y) == yearlyWithdrawals[y].cppOasIncome
MandatoryTaken(y) == TakenIn(y, 1, "pretax")
\* remaining need = max(0, targetSpending - fixed income)
RemainingNeed(y) == Max(0, yearlyWithdrawals[y].targetSpending - FixedIncome(y))

\* C4: in a simulated year in which the tax-deferred balances and the
\* household first-bracket room (ceiling minus fixed income and mandatory
\* withdrawals) are each at least the remaining need, the whole need comes
\* from the tax-deferred accounts and no tax-free account is touched.
C4_TaxFreeUntouched ==
    \A y \in Recorded :
        (/\ StartBalanceOf(y, "pretax") >= RemainingNeed(y)
         /\ HouseholdBracketCap(profile) - FixedIncome(y) - MandatoryTaken(y)
                >= RemainingNeed(y))
        => /\ WithdrawnFrom(y, "pretax") >= RemainingNeed(y)
           /\ WithdrawnFrom(y, "pretax") = yearlyWithdrawals[y].totalWithdrawal
           /\ audit[y].steps[5].needAfter = 0
           /\ \A id \in IdsOf("tax_free") : yearlyWithdrawals[y].withdrawals[id] = 0

\* such a year, with a positive need, a mandatory minimum below it and a
\* tax-free account that holds money
C4_Witness ==
    \E y \in Recorded :
        /\ StartBalanceOf(y, "pretax") >= RemainingNeed(y)
        /\ HouseholdBracketCap(profile) - FixedIncome(y) - MandatoryTaken(y)
               >= RemainingNeed(y)
        /\ 0 < MandatoryTaken(y)
        /\ MandatoryTaken(y) < RemainingNeed(y)
        /\ TakenIn(y, 2, "pretax") > 0
        /\ StartBalanceOf(y, "tax_free") > 0

\* the household bracket room before any withdrawal: the first federal
\* bracket's upper bound, doubled with a spouse, minus fixed income
BracketRoom(y) == Max(0, HouseholdBracketCap(profile) - FixedIncome(y))

\* the years C5 is about
C5_Case(y) ==
    /\ yearlyWithdrawals[y].rmdAmount = 0
    /\ RemainingNeed(y) > BracketRoom(y)
    /\ StartBalanceOf(y, "pretax") >= BracketRoom(y)
    /\ StartBalanceOf(y, "tax_free") >= RemainingNeed(y) - BracketRoom(y)

\* C5: in a year without mandatory minimum whose remaining need exceeds the
\* household bracket room, with at least the room in tax-deferred and at least
\* the rest of the need in tax-free accounts, the tax-deferred withdrawals
\* are exactly the room, the tax-free withdrawals the rest of the need, and
\* the overflow step takes nothing.
C5_BracketThenTaxFree ==
    \A y \in Recorded :
        C5_Case(y)
        => /\ WithdrawnFrom(y, "pretax") = BracketRoom(y)
           /\ WithdrawnFrom(y, "tax_free") = RemainingNeed(y) - BracketRoom(y)
           /\ \A id \in AccountIds : audit[y].steps[5].taken[id] = 0

\* such a year with fixed income, a positive room and more tax-free money
\* than the rest of the need
C5_Witness ==
    \E y \in Recorded :
        /\ C5_Case(y)
        /\ FixedIncome(y) > 0
        /\ BracketRoom(y) > 0
        /\ StartBalanceOf(y, "tax_free") > RemainingNeed(y) - BracketRoom(y)

\* C6: a taxable account has a positive withdrawal only if every tax-free
\* account is at 0 after the year's withdrawals; household ordinary income
\* (tax-deferred withdrawals + fixed income) exceeds both the household
\* bracket ceiling and mandatory withdrawals + fixed income only if every
\* tax-free and every taxable account is at 0 after the year's withdrawals.
C6_StrictPriority ==
    \A y \in Recorded :
        /\ (\E id \in IdsOf("taxable") : yearlyWithdrawals[y].withdrawals[id] > 0)
           => \A id \in IdsOf("tax_free") : BalanceAfterWithdrawals(y, id) = 0
        /\ (/\ WithdrawnFrom(y, "pretax") + FixedIncome(y) > HouseholdBracketCap(profile)
            /\ WithdrawnFrom(y, "pretax") + FixedIncome(y)
                   > MandatoryTaken(y) + FixedIncome(y))
           => \A id \in IdsOf("tax_free") \cup IdsOf("taxable") :
                  BalanceAfterWithdrawals(y, id) = 0

\* a year in which tax-free and taxable accounts that held money are both
\* drained and the overflow step carries ordinary income past the ceiling
C6_Witness ==
    \E y \in Recorded :
        /\ WithdrawnFrom(y, "tax_free") > 0
        /\ WithdrawnFrom(y, "taxable") > 0
        /\ TakenIn(y, 5, "pretax") > 0
        /\ WithdrawnFrom(y, "pretax") + FixedIncome(y) > HouseholdBracketCap(profile)
        /\ WithdrawnFrom(y, "pretax") > MandatoryTaken(y)

\* C7: once an account's entry of accountDepletionAges is set to an age, no
\* later withdrawal step and no later year changes it.
C7_DepletionAgeKept ==
    [][\A id \in AccountIds :
          accountDepletionAges[id] # NULL
          => accountDepletionAges'[id] = accountDepletionAges[id]]_vars

\* an account whose depletion age was set in an earlier year has been walked
\* over again by all five steps of a later year, with need left at the end
C7_Witness ==
    /\ pc = "settle"
    /\ remainingNeed > 0
    /\ \E id \in AccountIds :
          /\ accountDepletionAges[id] # NULL
          /\ accountDepletionAges[id][1] < Age

\* the age of the first simulated year that began with a total balance <= 0
RECURSIVE FirstDepletedAge(_)
FirstDepletedAge(history) ==
    IF history = <<>> THEN NULL
    ELSE IF Head(history).startTotal <= 0 THEN Some(Head(history).age)
    ELSE FirstDepletedAge(Tail(history))

\* C8 (as claimed): portfolioDepletionAge is the age of the first simulated
\* year that begins with a total balance <= 0, null if there is none, never
\* changes once set, and is retirementAge when the initial portfolio total
\* is zero.
C8_AsClaimed ==
    pc = "done" =>
        /\ returned[1].portfolioDepletionAge = FirstDepletedAge(audit)
        /\ accumulationResult.totalAtRetirement = 0
           => returned[1].portfolioDepletionAge = Some(profile.retirementAge)

\* C8 (amended): portfolioDepletionAge is the age of the first simulated year
\* that begins with a total balance <= 0, null if there is none, and never
\* changes once set; when the initial portfolio total is zero and at least
\* one year is simulated (lifeExpectancy >= retirementAge) it is
\* retirementAge, and with no simulated year it is null.
C8_PortfolioDepletionAge ==
    /\ [](/\ portfolioDepletionAge = FirstDepletedAge(audit)
          /\ pc = "done" => returned[1].portfolioDepletionAge = portfolioDepletionAge
          /\ (accumulationResult.totalAtRetirement = 0 /\ audit # <<>>)
             => portfolioDepletionAge = Some(profile.retirementAge)
          /\ (pc = "done" /\ profile.lifeExpectancy < profile.retirementAge)
             => returned[1].portfolioDepletionAge = NULL)
    /\ [][portfolioDepletionAge # NULL
          => portfolioDepletionAge' = portfolioDepletionAge]_vars

\* a run that was not depleted when it began, found the portfolio empty at
\* the start of a later year, and went through another year's start after that
C8_Witness ==
    /\ pc = "done"
    /\ accumulationResult.totalAtRetirement > 0
    /\ returned[1].portfolioDepletionAge # NULL
    /\ returned[1].portfolioDepletionAge[1] > profile.retirementAge
    /\ returned[1].portfolioDepletionAge[1] < profile.lifeExpectancy

\* C9: once a simulated year begins with a total balance <= 0, that year and
\* every later year up to lifeExpectancy gets exactly one record, and in each
\* of these records every withdrawal and totalWithdrawal is 0.
C9_DepletedYearsRecorded ==
    \A y \in 1..Len(audit) :
        audit[y].startTotal <= 0
        => /\ \A z \in Recorded :
                  z >= y => /\ yearlyWithdrawals[z].totalWithdrawal = 0
                            /\ \A id \in AccountIds :
                                   yearlyWithdrawals[z].withdrawals[id] = 0
           /\ pc = "done"
              => \A a \in audit[y].age..profile.lifeExpectancy :
                     Cardinality({z \in DOMAIN returned[1].yearlyWithdrawals :
                                     returned[1].yearlyWithdrawals[z].age = a}) = 1

\* a returned run that withdrew in its first year, began a later year with
\* nothing left, and simulated at least one more year after that one
C9_Witness ==
    /\ pc = "done"
    /\ yearlyWithdrawals # <<>>
    /\ yearlyWithdrawals[1].totalWithdrawal > 0
    /\ \E y \in 1..Len(audit) :
          /\ audit[y].startTotal <= 0
          /\ audit[y].need > 0
          /\ audit[y].age < profile.lifeExpectancy

\* C10: when lifeExpectancy >= retirementAge, the result holds exactly
\* lifeExpectancy - retirementAge + 1 records, whose ages are, in order,
\* retirementAge, retirementAge + 1, ..., lifeExpectancy.
C10_OneRecordPerYear ==
    (pc = "done" /\ profile.lifeExpectancy >= profile.retirementAge)
    => /\ Len(returned[1].yearlyWithdrawals)
              = profile.lifeExpectancy - profile.retirementAge + 1
       /\ \A z \in DOMAIN returned[1].yearlyWithdrawals :
              returned[1].yearlyWithdrawals[z].age = profile.retirementAge + z - 1

\* a returned run over three years
C10_Witness ==
    /\ pc = "done"
    /\ profile.lifeExpectancy >= profile.retirementAge + 2
    /\ Len(returned[1].yearlyWithdrawals) >= 3

\* C11 (as claimed): when lifeExpectancy - retirementAge is zero or negative,
\* calculateWithdrawals returns an empty yearlyWithdrawals sequence.
C11_AsClaimed ==
    (pc = "done" /\ profile.lifeExpectancy - profile.retirementAge <= 0)
    => returned[1].yearlyWithdrawals = <<>>

\* C11 (amended): when lifeExpectancy - retirementAge is negative, the call
\* goes straight to its return, without simulating a year, and returns an
\* empty yearlyWithdrawals sequence; when it is zero, the call returns exactly
\* one record, for age retirementAge.
C11_DegenerateHorizon ==
    /\ profile.lifeExpectancy < profile.retirementAge
       => /\ pc \in {"loop", "done"}
          /\ pc = "loop" => ENABLED Return
          /\ pc = "done" => returned[1].yearlyWithdrawals = <<>>
    /\ (pc = "done" /\ profile.lifeExpectancy = profile.retirementAge)
       => /\ Len(returned[1].yearlyWithdrawals) = 1
          /\ returned[1].yearlyWithdrawals[1].age = profile.retirementAge

\* a returned run over a negative horizon with accounts that hold money
C11_Witness ==
    /\ pc = "done"
    /\ profile.lifeExpectancy < profile.retirementAge
    /\ accumulationResult.totalAtRetirement > 0
    /\ returned[1].yearlyWithdrawals = <<>>

\* C12: no step of calculateWithdrawals changes a caller-supplied account
\* (its balance included), accumulationResult.finalBalances or any other
\* input, so a further simulation on the same input objects, run in the same
\* calendar year, returns what the first one returned.
C12_InputsUnchanged ==
    /\ [][/\ accounts' = accounts
          /\ accumulationResult' = accumulationResult
          /\ profile' = profile
          /\ assumptions' = assumptions]_vars
    /\ []((pc = "done" /\ runs # <<>> /\ runs[1].at = currentYear)
          => returned[1] = runs[1].result)

\* a second run has returned after a first run that took money out of the
\* working copy in several years
C12_Witness ==
    /\ pc = "done"
    /\ runs # <<>>
    /\ runs[1].at = currentYear
    /\ Len(runs[1].result.yearlyWithdrawals) >= 2
    /\ runs[1].result.yearlyWithdrawals[2].totalWithdrawal > 0
    /\ \E k \in 1..Len(accountStates) : accountStates[k].balance < accounts[k].balance

\* a finished call of fn
Called(fn) == call.fn = fn /\ call.out # NULL

\* the factor the table lists for an age, in ten-thousandths
TableFactor(age) ==
    RRIF_TABLE[CHOOSE k \in 1..Len(RRIF_TABLE) : RRIF_TABLE[k].age = age].factor

\* C13: the mandatory minimum for (age, balance) is 0 for every age below 72
\* (70 and 71 included), balance x the table factor for ages 72..95,
\* balance x 0.20 for every age above 95, and for a fixed balance it does not
\* decrease from one age to the next from 72 upward.
C13_MandatoryMinimum ==
    Called("calculateRRIFMinimum") =>
        LET age == call.args[1]
            balance == call.args[2]
            minimum == call.out[1]
        IN  /\ age < 72 => minimum = 0
            /\ age \in 72..95 => minimum = MulDiv(balance, TableFactor(age), 10000)
            /\ age > 95 => minimum = balance \div 5
            /\ age >= 72 => minimum <= calculateRRIFMinimum(age + 1, balance)

\* the minimum of a positive balance was asked for an age beyond the table
C13_Witness ==
    /\ Called("calculateRRIFMinimum")
    /\ call.args[1] > 95
    /\ call.args[2] > 0
    /\ call.out[1] = call.args[2] \div 5

C15_GainsHalfIncluded ==
    (/\ Called("calculateTotalFederalTax")
     /\ call.args[1] >= 0
     /\ call.args[2] >= 0
     /\ call.args[2] % 2 = 0)
    => call.out[1] = calculateTotalFederalTax(call.args[1] + call.args[2] \div 2, 0)

\* the tax of a gain of 100,000 without other income was computed: that of
\* an ordinary income of 50,000
C15_Witness ==
    /\ Called("calculateTotalFederalTax")
    /\ call.args = <<0, Dollars(100000)>>
    /\ call.out[1] > 0
    /\ call.out[1] = calculateTotalFederalTax(Dollars(50000), 0)

\* C16: the provincial tax of (ordinaryIncome, capitalGains, rate) is
\* rate x (ordinaryIncome + 50% of capitalGains).
C16_FlatProvincialTax ==
    (/\ Called("calculateProvincialTax")
     /\ call.args[1] >= 0
     /\ call.args[2] >= 0)
    => call.out[1] = MulDiv(call.args[1] + call.args[2] \div 2, call.args[3], 100)

\* C17: for all ordinary incomes and capital gains, negative ones included,
\* the federal and the provincial tax are >= 0, and are 0 whenever ordinary
\* income + 50% of the gains is <= 0.
C17_TaxNonNegative ==
    (Called("calculateTotalFederalTax") \/ Called("calculateProvincialTax"))
    => /\ call.out[1] >= 0
       /\ call.args[1] + call.args[2] \div 2 <= 0 => call.out[1] = 0

\* the federal tax of a positive income below the basic personal amount,
\* reduced by a capital loss, was computed
C17_Witness ==
    /\ Called("calculateTotalFederalTax")
    /\ call.args[1] > 0
    /\ call.args[2] < 0
    /\ call.args[1] + call.args[2] \div 2 > 0
    /\ call.args[1] + call.args[2] \div 2 < BASIC_PERSONAL_AMOUNT
    /\ call.out[1] = 0

\* the positions of the taxable accounts in the account list
TaxablePositions ==
    {k \in 1..Len(accounts) : getTaxTreatment(accounts[k].type) = "taxable"}

\* the years whose taxable step has run, and what that step recorded
TaxableStepDone == {y \in 1..Len(audit) : Len(audit[y].steps) >= 4}
TaxableStepOf(y) == audit[y].steps[4]

\* C18: when every taxable account the taxable step withdraws from has a
\* cost basis equal to its balance, the step adds nothing to the year's
\* realized capital gains.
C18_NoGainAtCost ==
    \A y \in TaxableStepDone :
        LET s == TaxableStepOf(y)
        IN  (\A k \in TaxablePositions :
                 s.taken[accounts[k].id] > 0 => s.costBases[k] = s.before[k])
            => s.gains = 0

\* a taxable account whose balance a negative return has brought down to its
\* cost basis is withdrawn from, after a year in which its withdrawal
\* realized a gain
C18_Witness ==
    \E y \in TaxableStepDone : \E k \in TaxablePositions :
        LET s == TaxableStepOf(y)
        IN  /\ y > 1
            /\ TaxableStepOf(y - 1).gains > 0
            /\ s.taken[accounts[k].id] > 0
            /\ s.costBases[k] = s.before[k]
            /\ s.gains = 0

\* the taxable accounts the taxable step of year y reached while need remained
Reached(y) ==
    {k \in TaxablePositions :
        audit[y].steps[3].needAfter
            - SumSeq([j \in 1..(k - 1) |-> TaxableStepOf(y).taken[accounts[j].id]]) > 0}

AllZeroInput ==
    /\ \A k \in 1..Len(accounts) : accumulationResult.finalBalances[accounts[k].id] = 0
    /\ accumulationResult.totalAtRetirement = 0
    /\ assumptions.inflationRate = 0
    /\ assumptions.safeWithdrawalRate = 0
    /\ assumptions.retirementReturnRate = 0
    /\ profile.provinceTaxRate = 0

\* nobody of the household has a CPP/OAS benefit
NoBenefit ==
    /\ profile.cppOasBenefit = 0
    /\ profile.spouse # NULL => profile.spouse[1].cppOasBenefit = 0

\* a returned result in which every amount is zero
AllZeroResult ==
    /\ \A y \in DOMAIN returned[1].yearlyWithdrawals :
           LET rec == returned[1].yearlyWithdrawals[y]
           IN  /\ \A id \in AccountIds : rec.withdrawals[id] = 0
               /\ rec.totalWithdrawal = 0
               /\ rec.cppOasIncome = 0
               /\ rec.grossIncome = 0
               /\ rec.federalTax = 0
               /\ rec.provincialTax = 0
               /\ rec.totalTax = 0
               /\ \A k \in DOMAIN rec.remainingBalances : rec.remainingBalances[k] = 0
               /\ rec.totalRemainingBalance = 0
    /\ returned[1].lifetimeTaxesPaid = 0
    /\ returned[1].sustainableMonthlyWithdrawal = 0
    /\ returned[1].sustainableAnnualWithdrawal = 0
    /\ returned[1].sustainableMonthlyWithdrawalNominal = 0
    /\ returned[1].sustainableAnnualWithdrawalNominal = 0

\* C20 (as claimed): with every account balance zero and all rates zero,
\* every record of the result has zero withdrawals, zero fixed income, zero
\* taxes and zero remaining balances, and lifetimeTaxesPaid and the
\* sustainable-withdrawal figures are 0.
C20_AsClaimed ==
    (pc = "done" /\ AllZeroInput) => AllZeroResult

\* C20 (amended): the same, for a household without CPP/OAS benefit.
C20_AllZero ==
    (pc = "done" /\ AllZeroInput /\ NoBenefit) => AllZeroResult

\* a returned run of three years over an account with a zero balance
C20_Witness ==
    /\ pc = "done"
    /\ AllZeroInput
    /\ NoBenefit
    /\ Len(accounts) >= 1
    /\ Len(returned[1].yearlyWithdrawals) >= 3
    /\ AllZeroResult

\* C21: lifetimeTaxesPaid is the sum of totalTax over the yearly records, and
\* in each record totalTax = federalTax + provincialTax and
\* afterTaxIncome = grossIncome - totalTax.
C21_TaxTotals ==
    /\ lifetimeTaxesPaid
           = SumSeq([y \in Recorded |-> yearlyWithdrawals[y].totalTax])
    /\ \A y \in Recorded :
           LET rec == yearlyWithdrawals[y]
           IN  /\ rec.totalTax = rec.federalTax + rec.provincialTax
               /\ rec.afterTaxIncome = rec.grossIncome - rec.totalTax
    /\ pc = "done"
       => returned[1].lifetimeTaxesPaid
              = SumSeq([y \in DOMAIN returned[1].yearlyWithdrawals |->
                           returned[1].yearlyWithdrawals[y].totalTax])

\* a returned run of a couple, with tax in three years and a year in which
\* the spouse's tax-deferred account was withdrawn from
C21_Witness ==
    /\ pc = "done"
    /\ profile.spouse # NULL
    /\ Len(returned[1].yearlyWithdrawals) >= 3
    /\ \A y \in 1..3 : returned[1].yearlyWithdrawals[y].totalTax > 0
    /\ \E y \in 1..3 : \E k \in 1..Len(accounts) :
           /\ accounts[k].owner = "spouse"
           /\ isPreTax(accounts[k].type)
           /\ returned[1].yearlyWithdrawals[y].withdrawals[accounts[k].id] > 0

\* C22: two invocations of calculateWithdrawals with equal accounts, profile,
\* assumptions and accumulation result return equal RetirementResults,
\* whenever they are run.
C22_Deterministic ==
    (pc = "done" /\ runs # <<>>) => returned[1] = runs[1].result

\* C23: for every account and every simulated year, the recorded remaining
\* balance is (balance at the start of the year - the account's withdrawal of
\* the year) x (1 + retirementReturnRate).
C23_ReturnAfterWithdrawals ==
    \A y \in Recorded : \A k \in 1..Len(accounts) :
        LET id == accounts[k].id
            rec == yearlyWithdrawals[y]
        IN  rec.remainingBalances[k]
                = MulDiv(audit[y].startBalances[id] - rec.withdrawals[id],
                         100 + assumptions.retirementReturnRate, 100)

\* with a return of 5 percent, an account is withdrawn from without being
\* emptied in two years running
C23_Witness ==
    /\ assumptions.retirementReturnRate = 5
    /\ Len(yearlyWithdrawals) >= 2
    /\ \E k \in 1..Len(accounts) : \A y \in 1..2 :
           /\ yearlyWithdrawals[y].withdrawals[accounts[k].id] > 0
           /\ yearlyWithdrawals[y].remainingBalances[k] > 0

\* the spouse's age in the year the primary is `age`
SpouseAgeAt(age) == profile.spouse[1].currentAge + (age - profile.currentAge)

\* C24: the spouse's benefit is part of a year's fixed income exactly when
\* the spouse's own age, spouse.currentAge + (primary's simulated age -
\* primary.currentAge), has reached the spouse's benefit start age, and the
\* spouse's mandatory minimum is 0 in every year in which that age is below
\* 72, whatever the primary's age.
C24_SpouseOwnAge ==
    profile.spouse # NULL =>
        \A y \in 1..Len(audit) :
            /\ (audit[y].spouseCppOas > 0)
                   <=> (SpouseAgeAt(audit[y].age) >= profile.spouse[1].cppOasStartAge)
            /\ audit[y].fixedIncome >= audit[y].spouseCppOas
            /\ SpouseAgeAt(audit[y].age) < 72 => audit[y].spouseRRIF = 0

\* a year in which the primary, at 72, has a mandatory minimum and the
\* spouse, at 71 with tax-deferred money, has none but draws the benefit,
\* after a year in which the spouse had not reached the start age
C24_Witness ==
    /\ profile.spouse # NULL
    /\ \E y \in 2..Len(audit) :
           /\ audit[y].age >= 72
           /\ audit[y].primaryRRIF > 0
           /\ SpouseAgeAt(audit[y].age) < 72
           /\ audit[y].spousePreTax > 0
           /\ audit[y].spouseRRIF = 0
           /\ audit[y].spouseCppOas > 0
           /\ audit[y - 1].spouseCppOas = 0

\* the age of the first simulated year after whose withdrawals the balance
\* of account number k is <= 0
RECURSIVE FirstEmptyAge(_, _)
FirstEmptyAge(history, k) ==
    IF history = <<>> THEN NULL
    ELSE IF Head(history).steps[5].balances[k] <= 0 THEN Some(Head(history).age)
    ELSE FirstEmptyAge(Tail(history), k)

\* C25: for every account, accountDepletionAges[id] is the age of the first
\* simulated year in which the account's balance after the year's
\* withdrawals is <= 0, and null if there is no such year; an account whose
\* balance is zero when retirement starts is no exception.
C25_AccountDepletionAge ==
    pc = "done" =>
        \A k \in 1..Len(accounts) :
            returned[1].accountDepletionAges[accounts[k].id] = FirstEmptyAge(audit, k)

\* C26: a withdrawal w from a taxable account with balance b > 0 turns its
\* cost basis into cost basis x (b - w) / b when w < b and into 0 when
\* w = b, and no other step of the year changes a cost basis.
C26_CostBasisShrinks ==
    [][\A k \in 1..Len(accountStates) :
          LET b == accountStates[k].balance
              w == accountStates[k].balance - accountStates'[k].balance
              basis == accountStates[k].costBasis
          IN  IF pc = "taxable" /\ getTaxTreatment(accountStates[k].type) = "taxable"
              THEN b > 0 =>
                      /\ w < b => accountStates'[k].costBasis = MulDiv(basis, b - w, b)
                      /\ w = b => accountStates'[k].costBasis = 0
              ELSE accountStates'[k].costBasis = basis]_vars

\* the taxable step has just taken a part of a taxable account, whose cost
\* basis is now smaller but not zero
C26_Witness ==
    /\ pc = "overflow"
    /\ \E k \in TaxablePositions :
           LET s == audit[Len(audit)].steps[4]
           IN  /\ s.taken[accounts[k].id] > 0
               /\ accountStates[k].balance > 0
               /\ accountStates[k].costBasis > 0
               /\ accountStates[k].costBasis < s.costBases[k]

\* C27: whenever the taxable step visits an account whose balance is zero,
\* the gain ratio is resolved to the 0.5 fallback, without a division by the
\* zero balance.
C27_GainRatioGuarded ==
    \A y \in TaxableStepDone : \A k \in Reached(y) :
        TaxableStepOf(y).before[k] = 0 => TaxableStepOf(y).gainRatios[k] = "fallback"

\* the part of the income that lies in bracket k of a table: between the
\* previous bracket's upper bound and this bracket's upper bound
PortionIn(table, k, taxableIncome) ==
    Max(0, Min(taxableIncome, table[k].max)
           - (IF k = 1 THEN 0 ELSE table[k - 1].max))

C29_NoExcessWithdrawal ==
    /\ remainingNeed >= 0
    /\ \A y \in 1..Len(audit) : \A s \in 1..Len(audit[y].steps) :
           audit[y].steps[s].needAfter >= 0
    /\ \A y \in Recorded :
           yearlyWithdrawals[y].totalWithdrawal <= Max(RemainingNeed(y), MandatoryTaken(y))

\* a year in which the mandatory minimum is positive and below the need, and
\* the later steps take exactly the rest of the need
C29_Witness ==
    \E y \in Recorded :
        /\ MandatoryTaken(y) > 0
        /\ MandatoryTaken(y) < RemainingNeed(y)
        /\ yearlyWithdrawals[y].totalWithdrawal = RemainingNeed(y)
        /\ WithdrawnFrom(y, "tax_free") > 0

\* C30: in every simulated year in which grossIncome is less than
\* targetSpending, every account's balance after the year's withdrawals is 0.
C30_UnmetOnlyWhenExhausted ==
    \A y \in Recorded :
        yearlyWithdrawals[y].grossIncome < yearlyWithdrawals[y].targetSpending
        => \A k \in 1..Len(accounts) : BalanceAfterWithdrawals(y, accounts[k].id) = 0

\* a year that began with money in a tax-deferred, a tax-free and a taxable
\* account and ended short of target spending
C30_Witness ==
    \E y \in Recorded :
        /\ yearlyWithdrawals[y].grossIncome < yearlyWithdrawals[y].targetSpending
        /\ StartBalanceOf(y, "pretax") > 0
        /\ StartBalanceOf(y, "tax_free") > 0
        /\ StartBalanceOf(y, "taxable") > 0
        /\ yearlyWithdrawals[y].totalWithdrawal = audit[y].startTotal

=============================================================================
